---- MODULE Spec2Model ----
(***************************************************************************)
(* Model of app/routers/admin.py of Marzban: the sync_admin handler        *)
(* (reconciliation of every user's inbounds/proxies against an allowed     *)
(* inbound policy) and the bulk disable/activate handlers (store sweep,    *)
(* startup configuration, local core restart, node restart sweep).         *)
(***************************************************************************)
EXTENDS Integers, Sequences, FiniteSets, TLC

(* ------------------------------------------------------------------ *)
(* Bounds of the model                                                 *)
(* ------------------------------------------------------------------ *)
MaxUsers == 2
MaxRequests == 2
MaxNodes == 2
MaxFleetUsers == 1

(* ------------------------------------------------------------------ *)
(* Value universes                                                      *)
(* ------------------------------------------------------------------ *)
ProxyTypes == {"vmess", "vless", "trojan", "shadowsocks"}

Tags == {"tag1", "tag2"}

Range(s) == {s[k] : k \in DOMAIN s}

\* every list that holds each element of S exactly once
Perms(S) == {s \in [1..Cardinality(S) -> S] : Range(s) = S}

TagLists == UNION {Perms(S) : S \in SUBSET Tags}

EmptyMap == [p \in {} |-> <<>>]

\* ProxyInbound objects of the request body: only .tag is read
ProxyInbounds(tags) == [k \in DOMAIN tags |-> [tag |-> tags[k]]]

\* request bodies: Dict[ProxyTypes, List[ProxyInbound]], at most one protocol
Configs == {EmptyMap} \cup
    UNION {{[p \in {q} |-> ProxyInbounds(l)] : l \in TagLists} : q \in ProxyTypes}

\* settings payloads: what a user already holds, and a protocol's defaults
StoredSettings(p) == [type |-> p, origin |-> "stored"]

\* the users of the store before the first sync, as (inbounds, status): no
\* inbound, one protocol, tags in another order than the policy's, two
\* protocols; each of the five values of UserStatus
InitialRows == {
    <<EmptyMap, "active">>,
    <<EmptyMap, "disabled">>,
    <<[p \in {"vmess"} |-> <<"tag1">>], "on_hold">>,
    <<[p \in {"vmess"} |-> <<"tag1">>], "expired">>,
    <<[p \in {"vmess"} |-> <<"tag2", "tag1">>], "active">>,
    <<[p \in {"vmess"} |-> <<"tag2", "tag1">>], "limited">>,
    <<[p \in {"vmess", "trojan"} |-> IF p = "vmess" THEN <<"tag1">> ELSE <<"tag2">>], "on_hold">>,
    <<[p \in {"vmess", "trojan"} |-> IF p = "vmess" THEN <<"tag1">> ELSE <<"tag2">>], "disabled">> }

\* a user holds one settings payload per protocol of its inbounds
InitialUsers == {[inbounds |-> row[1],
                  proxies |-> [p \in DOMAIN row[1] |-> StoredSettings(p)],
                  status |-> row[2]] : row \in InitialRows}

VARIABLES db, session, configs, pc, idx, unsuccessful, report,
          attempts, persisted, pushes, failed, computed, before, prev,
          coreCfg, nodes, rpc, rcfg, rtodo, issued, coreErr, nodeErr, steady

\* db           the committed rows of the admin's users (a list of users)
\* session      the request's session over them: committed rows plus what
\*              the request has written and not committed
\* configs      the body of the sync request
\* pc, idx      sync_admin's position: "idle" or "loop", and the loop index
\* unsuccessful sync_admin's counter; report: what the last sync returned
\* attempts     users for which this sync called crud.update_user
\* persisted    users whose update this sync committed
\* pushes       users for which this sync called xray.operations.update_user
\* failed       per user, what raised in this sync: none, ctor, store, push
\* computed     per user, the new_inbounds / new_proxies this sync computed
\* before       the committed rows when this sync began
\* prev         the body and outcome of the sync before this one
\* coreCfg      the startup configuration the local core runs
\* nodes        per node, connected and the configuration it runs
\* rpc, rcfg, rtodo   per bulk request: position, startup_config, nodes left
\* issued       per bulk request, the restart_node calls made (node, config)
\* coreErr      bulk requests whose xray.core.restart failed
\* nodeErr      per bulk request, the nodes whose restart failed
\* steady       per node, whether it has been connected all along
vars == <<db, session, configs, pc, idx, unsuccessful, report,
          attempts, persisted, pushes, failed, computed, before, prev,
          coreCfg, nodes, rpc, rcfg, rtodo, issued, coreErr, nodeErr, steady>>

syncVars == <<configs, pc, idx, unsuccessful, report, attempts, persisted,
              pushes, failed, computed, before, prev, session>>

fleetVars == <<coreCfg, nodes, rpc, rcfg, rtodo, issued, coreErr, nodeErr, steady>>

NoValue == [none |-> TRUE]

(* ------------------------------------------------------------------ *)
(* sync_admin: the pure part of one loop iteration                      *)
(* ------------------------------------------------------------------ *)

\* allowed_inbounds = {protocol: [inbound.tag for inbound in inbounds]}
AllowedInbounds(cfg) ==
    [p \in DOMAIN cfg |-> [k \in DOMAIN cfg[p] |-> cfg[p][k].tag]]

\* the first loop: tags of the user that the policy still allows
Carried(inbounds, allowed) ==
    LET keep(p) == SelectSeq(inbounds[p], LAMBDA t : t \in Range(allowed[p]))
        D == {p \in DOMAIN inbounds \cap DOMAIN allowed : keep(p) # <<>>}
    IN  [p \in D |-> keep(p)]

\* list(existing_tags.union(tags)): a set has no order of its own
UnionLists(existing, tags) == Perms(Range(existing) \cup Range(tags))

\* the second loop: every value new_inbounds can take
NewInboundsMutant(inbounds, allowed) ==
    LET carried == Carried(inbounds, allowed)
    IN  {f \in [DOMAIN carried \cup DOMAIN allowed -> TagLists] :
            \A p \in DOMAIN f :
                IF p \in DOMAIN carried THEN f[p] = carried[p]
                                        ELSE f[p] = allowed[p]}
NewInbounds(inbounds, allowed) ==
    LET carried == Carried(inbounds, allowed)
    IN  {f \in [DOMAIN allowed -> TagLists] :
            \A p \in DOMAIN allowed :
                IF p \in DOMAIN carried
                THEN f[p] \in UnionLists(carried[p], allowed[p])
                ELSE f[p] = allowed[p]}

\* ShadowsocksSettings() / VMessSettings() / VLESSSettings() / TrojanSettings()
DefaultSettings(p) ==
    CASE p = "shadowsocks" -> [type |-> "shadowsocks", origin |-> "default"]
      [] p = "vmess"       -> [type |-> "vmess", origin |-> "default"]
      [] p = "vless"       -> [type |-> "vless", origin |-> "default"]
      [] p = "trojan"      -> [type |-> "trojan", origin |-> "default"]

\* the protocols the if/elif chain has a branch for
HasDefault(p) == p \in {"shadowsocks", "vmess", "vless", "trojan"}

\* settings kept from the user: those whose protocol is in new_inbounds
KeptProxies(proxies, newInbounds) ==
    [p \in DOMAIN proxies \cap DOMAIN newInbounds |-> proxies[p]]

\* protocols of new_inbounds for which a default payload is constructed
MissingProxies(proxies, newInbounds) ==
    {p \in DOMAIN newInbounds \ DOMAIN proxies : HasDefault(p)}

NewProxiesMutant(proxies, newInbounds) == KeptProxies(proxies, newInbounds)
NewProxies(proxies, newInbounds) ==
    LET kept == KeptProxies(proxies, newInbounds)
        made == MissingProxies(proxies, newInbounds)
    IN  [p \in DOMAIN kept \cup made |->
            IF p \in DOMAIN kept THEN kept[p] ELSE DefaultSettings(p)]

\* if new_inbounds != user.inbounds or new_proxies != {existing settings}
NeedsUpdate(user, newInbounds, newProxies) ==
    newInbounds # user.inbounds \/ newProxies # user.proxies

\* if user.status in [UserStatus.active, UserStatus.on_hold]
ShouldPushMutant(user) == TRUE
ShouldPush(user) == user.status \in {"active", "on_hold"}

UserModify(newInbounds, newProxies) ==
    [inbounds |-> newInbounds, proxies |-> newProxies]

(* ------------------------------------------------------------------ *)
(* The user store: a session over the committed rows                    *)
(* ------------------------------------------------------------------ *)

\* crud.update_user on success: the patch is applied to the row
ApplyModify(user, modify) ==
    [user EXCEPT !.inbounds = modify.inbounds, !.proxies = modify.proxies]

\* what a failed update may leave uncommitted in the session
PartialWrites(user, modify) ==
    { [user EXCEPT !.inbounds = modify.inbounds],
      [user EXCEPT !.proxies = modify.proxies],
      ApplyModify(user, modify) }

\* db.rollback(): the session forgets what it has not committed
Rollback(committed, dirty) == committed

(* ------------------------------------------------------------------ *)
(* The fleet: the local core, the nodes, the bulk requests in flight    *)
(* ------------------------------------------------------------------ *)

Requests == 1..MaxRequests

Nodes == 1..MaxNodes

\* crud.disable_all_active_users: active and on_hold users become disabled
DisableAll(rows) ==
    [k \in DOMAIN rows |->
        IF rows[k].status \in {"active", "on_hold"}
        THEN [rows[k] EXCEPT !.status = "disabled"] ELSE rows[k]]

\* crud.activate_all_disabled_users: disabled users become active
ActivateAll(rows) ==
    [k \in DOMAIN rows |->
        IF rows[k].status = "disabled"
        THEN [rows[k] EXCEPT !.status = "active"] ELSE rows[k]]

\* xray.config.include_db_users(): the startup configuration of the users
\* that are active or on hold in the store right now
IncludeDbUsers(rows) ==
    [users |-> {k \in DOMAIN rows : rows[k].status \in {"active", "on_hold"}}]

\* list(xray.nodes.items()): the registry's nodes, in insertion order
NodeItems == [k \in 1..MaxNodes |-> k]

\* no bulk request yet; the core and the nodes run the store's configuration
FleetAtRest ==
    /\ coreCfg = IncludeDbUsers(db)
    /\ nodes \in [Nodes -> [connected : BOOLEAN, cfg : {IncludeDbUsers(db)}]]
    /\ rpc = [r \in Requests |-> "idle"]
    /\ rcfg = [r \in Requests |-> NoValue]
    /\ rtodo = [r \in Requests |-> <<>>]
    /\ issued = [r \in Requests |-> {}]
    /\ coreErr = {}
    /\ nodeErr = [r \in Requests |-> {}]
    /\ steady = [n \in Nodes |-> nodes[n].connected]

(* ------------------------------------------------------------------ *)
(* sync_admin                                                           *)
(* ------------------------------------------------------------------ *)

Users == 1..Len(db)

SyncInit ==
    /\ db \in UNION {[1..n -> InitialUsers] : n \in 1..MaxUsers}
    /\ session = db
    /\ configs = EmptyMap
    /\ pc = "idle"
    /\ idx = 1
    /\ unsuccessful = 0
    /\ report = NoValue
    /\ attempts = {}
    /\ persisted = {}
    /\ pushes = {}
    /\ failed = [k \in Users |-> "none"]
    /\ computed = [k \in Users |-> NoValue]
    /\ before = db
    /\ prev = NoValue
    /\ FleetAtRest
    /\ \A n \in Nodes : nodes[n].connected

\* the body of the next request: any policy at first; the request is sent
\* again, with the same body, after a run that reported no failure
Bodies ==
    IF report = NoValue /\ prev = NoValue THEN Configs
    ELSE IF report.unsuccessful = 0 THEN {configs} ELSE {}

\* the request arrives: users = crud.get_users(...), unsuccessful = 0
SyncStart ==
    /\ pc = "idle"
    /\ \E c \in Bodies : configs' = c
    /\ pc' = "loop"
    /\ idx' = 1
    /\ unsuccessful' = 0
    /\ session' = db
    /\ attempts' = {}
    /\ persisted' = {}
    /\ pushes' = {}
    /\ failed' = [k \in Users |-> "none"]
    /\ computed' = [k \in Users |-> NoValue]
    /\ before' = db
    /\ prev' = IF report = NoValue THEN NoValue
               ELSE [configs |-> configs, clean |-> report.unsuccessful = 0]
    /\ report' = NoValue
    /\ UNCHANGED db
    /\ UNCHANGED fleetVars

InLoop == pc = "loop" /\ idx <= Len(db)

\* except Exception: db.rollback(); unsuccessful += 1, inside the for loop:
\* the next user is processed
ExceptMutant(kind, dirty) ==
    /\ session' = Rollback(db', dirty)
    /\ unsuccessful' = unsuccessful + 1
    /\ failed' = [failed EXCEPT ![idx] = kind]
    /\ idx' = Len(db) + 1
Except(kind, dirty) ==
    /\ session' = Rollback(db', dirty)
    /\ unsuccessful' = unsuccessful + 1
    /\ failed' = [failed EXCEPT ![idx] = kind]
    /\ idx' = idx + 1

\* a default settings constructor raises
SyncUserCtorError ==
    /\ InLoop
    /\ \E ni \in NewInbounds(session[idx].inbounds, AllowedInbounds(configs)) :
         /\ MissingProxies(session[idx].proxies, ni) # {}
         /\ computed' = [computed EXCEPT ![idx] = [inbounds |-> ni, proxies |-> NoValue]]
    /\ db' = db
    /\ Except("ctor", session)
    /\ UNCHANGED <<configs, pc, report, attempts, persisted, pushes, before, prev>>
    /\ UNCHANGED fleetVars

\* nothing to change for this user: no write
SyncUserUnchanged ==
    /\ InLoop
    /\ \E ni \in NewInbounds(session[idx].inbounds, AllowedInbounds(configs)) :
         LET np == NewProxies(session[idx].proxies, ni)
         IN  /\ ~NeedsUpdate(session[idx], ni, np)
             /\ computed' = [computed EXCEPT ![idx] = [inbounds |-> ni, proxies |-> np]]
    /\ idx' = idx + 1
    /\ UNCHANGED <<db, session, configs, pc, unsuccessful, report, attempts,
                   persisted, pushes, failed, before, prev>>
    /\ UNCHANGED fleetVars

\* crud.update_user succeeds, and so does the push when there is one
SyncUserUpdated ==
    /\ InLoop
    /\ \E ni \in NewInbounds(session[idx].inbounds, AllowedInbounds(configs)) :
         LET np == NewProxies(session[idx].proxies, ni)
             user == ApplyModify(session[idx], UserModify(ni, np))
         IN  /\ NeedsUpdate(session[idx], ni, np)
             /\ computed' = [computed EXCEPT ![idx] = [inbounds |-> ni, proxies |-> np]]
             /\ session' = [session EXCEPT ![idx] = user]
             /\ db' = session'
             /\ pushes' = IF ShouldPush(user) THEN pushes \cup {idx} ELSE pushes
    /\ attempts' = attempts \cup {idx}
    /\ persisted' = persisted \cup {idx}
    /\ idx' = idx + 1
    /\ UNCHANGED <<configs, pc, unsuccessful, report, failed, before, prev>>
    /\ UNCHANGED fleetVars

\* crud.update_user raises
SyncUserStoreError ==
    /\ InLoop
    /\ \E ni \in NewInbounds(session[idx].inbounds, AllowedInbounds(configs)) :
         LET np == NewProxies(session[idx].proxies, ni)
         IN  /\ NeedsUpdate(session[idx], ni, np)
             /\ computed' = [computed EXCEPT ![idx] = [inbounds |-> ni, proxies |-> np]]
             /\ db' = db
             /\ \E dirty \in PartialWrites(session[idx], UserModify(ni, np)) :
                    Except("store", [session EXCEPT ![idx] = dirty])
    /\ attempts' = attempts \cup {idx}
    /\ UNCHANGED <<configs, pc, report, persisted, pushes, before, prev>>
    /\ UNCHANGED fleetVars

\* crud.update_user succeeds, then xray.operations.update_user raises
SyncUserPushError ==
    /\ InLoop
    /\ \E ni \in NewInbounds(session[idx].inbounds, AllowedInbounds(configs)) :
         LET np == NewProxies(session[idx].proxies, ni)
             user == ApplyModify(session[idx], UserModify(ni, np))
             written == [session EXCEPT ![idx] = user]
         IN  /\ NeedsUpdate(session[idx], ni, np)
             /\ ShouldPush(user)
             /\ computed' = [computed EXCEPT ![idx] = [inbounds |-> ni, proxies |-> np]]
             /\ db' = written
             /\ Except("push", written)
    /\ attempts' = attempts \cup {idx}
    /\ persisted' = persisted \cup {idx}
    /\ pushes' = pushes \cup {idx}
    /\ UNCHANGED <<configs, pc, report, before, prev>>
    /\ UNCHANGED fleetVars

\* return {"total": ..., "success": ..., "unsuccessful": ...}
SyncReturn ==
    /\ pc = "loop"
    /\ idx > Len(db)
    /\ report' = [total |-> Len(db),
                  success |-> Len(db) - unsuccessful,
                  unsuccessful |-> unsuccessful]
    /\ pc' = "idle"
    /\ UNCHANGED <<db, session, configs, idx, unsuccessful, attempts, persisted,
                   pushes, failed, computed, before, prev>>
    /\ UNCHANGED fleetVars

Next ==
    \/ SyncStart
    \/ SyncUserCtorError
    \/ SyncUserUnchanged
    \/ SyncUserUpdated
    \/ SyncUserStoreError
    \/ SyncUserPushError
    \/ SyncReturn

Spec == SyncInit /\ [][Next]_vars

(* ------------------------------------------------------------------ *)
(* disable_all_active_users / activate_all_disabled_users               *)
(* ------------------------------------------------------------------ *)

FleetUsers == {[inbounds |-> [p \in {"vmess"} |-> <<"tag1">>],
                proxies |-> [p \in {"vmess"} |-> StoredSettings(p)],
                status |-> st] : st \in {"active", "on_hold", "disabled", "expired"}}

FleetInit ==
    /\ db \in [1..MaxFleetUsers -> FleetUsers]
    /\ session = db
    /\ configs = EmptyMap
    /\ pc = "idle"
    /\ idx = 1
    /\ unsuccessful = 0
    /\ report = NoValue
    /\ attempts = {}
    /\ persisted = {}
    /\ pushes = {}
    /\ failed = [k \in Users |-> "none"]
    /\ computed = [k \in Users |-> NoValue]
    /\ before = db
    /\ prev = NoValue
    /\ FleetAtRest

\* crud.disable_all_active_users(db=db, admin=dbadmin)
DisableBegin(r) ==
    /\ rpc[r] = "idle"
    /\ db' = DisableAll(db)
    /\ rpc' = [rpc EXCEPT ![r] = "stored"]
    /\ UNCHANGED <<coreCfg, nodes, rcfg, rtodo, issued, coreErr, nodeErr, steady>>
    /\ UNCHANGED syncVars

\* crud.activate_all_disabled_users(db=db, admin=dbadmin)
ActivateBegin(r) ==
    /\ rpc[r] = "idle"
    /\ db' = ActivateAll(db)
    /\ rpc' = [rpc EXCEPT ![r] = "stored"]
    /\ UNCHANGED <<coreCfg, nodes, rcfg, rtodo, issued, coreErr, nodeErr, steady>>
    /\ UNCHANGED syncVars

\* startup_config = xray.config.include_db_users()
BuildConfig(r) ==
    /\ rpc[r] = "stored"
    /\ rcfg' = [rcfg EXCEPT ![r] = IncludeDbUsers(db)]
    /\ rpc' = [rpc EXCEPT ![r] = "built"]
    /\ UNCHANGED <<db, coreCfg, nodes, rtodo, issued, coreErr, nodeErr, steady>>
    /\ UNCHANGED syncVars

\* xray.core.restart is mutually exclusive: a caller waits while a restart
\* is in progress
CoreLockFreeMutant == TRUE
CoreLockFree == \A q \in Requests : rpc[q] # "restarting"

\* xray.core.restart(startup_config) is entered
CoreRestartEnter(r) ==
    /\ rpc[r] = "built"
    /\ CoreLockFree
    /\ rpc' = [rpc EXCEPT ![r] = "restarting"]
    /\ UNCHANGED <<db, coreCfg, nodes, rcfg, rtodo, issued, coreErr, nodeErr, steady>>
    /\ UNCHANGED syncVars

\* xray.core.restart returns; the loop over list(xray.nodes.items()) begins
CoreRestartDone(r) ==
    /\ rpc[r] = "restarting"
    /\ coreCfg' = rcfg[r]
    /\ rtodo' = [rtodo EXCEPT ![r] = NodeItems]
    /\ rpc' = [rpc EXCEPT ![r] = "sweep"]
    /\ UNCHANGED <<db, nodes, rcfg, issued, coreErr, nodeErr, steady>>
    /\ UNCHANGED syncVars

\* where the handler goes when xray.core.restart raises: it catches nothing
AfterCoreErrorMutant(r) ==
    /\ rtodo' = [rtodo EXCEPT ![r] = NodeItems]
    /\ rpc' = [rpc EXCEPT ![r] = "sweep"]
AfterCoreError(r) ==
    /\ rtodo' = rtodo
    /\ rpc' = [rpc EXCEPT ![r] = "error"]

\* what the core runs after a restart that failed: what it ran, or nothing
CoreAfterFailure == {coreCfg, NoValue}

\* xray.core.restart raises
CoreRestartFail(r) ==
    /\ rpc[r] = "restarting"
    /\ coreCfg' \in CoreAfterFailure
    /\ coreErr' = coreErr \cup {r}
    /\ AfterCoreError(r)
    /\ UNCHANGED <<db, nodes, rcfg, issued, nodeErr, steady>>
    /\ UNCHANGED syncVars

InSweep(r) == rpc[r] = "sweep" /\ rtodo[r] # <<>>

\* if node.connected is false: the node is passed over
SweepSkip(r) ==
    /\ InSweep(r)
    /\ ~nodes[Head(rtodo[r])].connected
    /\ rtodo' = [rtodo EXCEPT ![r] = Tail(rtodo[r])]
    /\ UNCHANGED <<db, coreCfg, nodes, rpc, rcfg, issued, coreErr, nodeErr, steady>>
    /\ UNCHANGED syncVars

\* the startup configuration the loop hands to restart_node
SweepConfigMutant(r) == IncludeDbUsers(db)
SweepConfig(r) == rcfg[r]

\* xray.operations.restart_node(node_id, startup_config) restarts the node
SweepRestartOk(r) ==
    /\ InSweep(r)
    /\ nodes[Head(rtodo[r])].connected
    /\ nodes' = [nodes EXCEPT ![Head(rtodo[r])].cfg = SweepConfig(r)]
    /\ issued' = [issued EXCEPT ![r] = @ \cup {<<Head(rtodo[r]), SweepConfig(r)>>}]
    /\ rtodo' = [rtodo EXCEPT ![r] = Tail(rtodo[r])]
    /\ UNCHANGED <<db, coreCfg, rpc, rcfg, coreErr, nodeErr, steady>>
    /\ UNCHANGED syncVars

\* restart_node keeps the node's failure to itself and returns: the loop
\* goes on to the next node
AfterNodeError(r) ==
    /\ rtodo' = [rtodo EXCEPT ![r] = Tail(rtodo[r])]
    /\ rpc' = rpc

\* xray.operations.restart_node fails on the node: the failure stays with it
SweepRestartFail(r) ==
    /\ InSweep(r)
    /\ nodes[Head(rtodo[r])].connected
    /\ issued' = [issued EXCEPT ![r] = @ \cup {<<Head(rtodo[r]), SweepConfig(r)>>}]
    /\ nodeErr' = [nodeErr EXCEPT ![r] = @ \cup {Head(rtodo[r])}]
    /\ AfterNodeError(r)
    /\ UNCHANGED <<db, coreCfg, nodes, rcfg, coreErr, steady>>
    /\ UNCHANGED syncVars

\* return {"detail": "Users successfully disabled" / "... activated"}
BulkReturn(r) ==
    /\ rpc[r] = "sweep"
    /\ rtodo[r] = <<>>
    /\ rpc' = [rpc EXCEPT ![r] = "ok"]
    /\ UNCHANGED <<db, coreCfg, nodes, rcfg, rtodo, issued, coreErr, nodeErr, steady>>
    /\ UNCHANGED syncVars

\* a node drops its connection
NodeDisconnect(n) ==
    /\ nodes[n].connected
    /\ nodes' = [nodes EXCEPT ![n].connected = FALSE]
    /\ steady' = [steady EXCEPT ![n] = FALSE]
    /\ UNCHANGED <<db, coreCfg, rpc, rcfg, rtodo, issued, coreErr, nodeErr>>
    /\ UNCHANGED syncVars

\* a node comes back
NodeConnect(n) ==
    /\ ~nodes[n].connected
    /\ nodes' = [nodes EXCEPT ![n].connected = TRUE]
    /\ UNCHANGED <<db, coreCfg, rpc, rcfg, rtodo, issued, coreErr, nodeErr, steady>>
    /\ UNCHANGED syncVars

FleetNext ==
    \/ \E r \in Requests : DisableBegin(r)
    \/ \E r \in Requests : ActivateBegin(r)
    \/ \E r \in Requests : BuildConfig(r)
    \/ \E r \in Requests : CoreRestartEnter(r)
    \/ \E r \in Requests : CoreRestartDone(r)
    \/ \E r \in Requests : CoreRestartFail(r)
    \/ \E r \in Requests : SweepSkip(r)
    \/ \E r \in Requests : SweepRestartOk(r)
    \/ \E r \in Requests : SweepRestartFail(r)
    \/ \E r \in Requests : BulkReturn(r)
    \/ \E n \in Nodes : NodeDisconnect(n)
    \/ \E n \in Nodes : NodeConnect(n)

FleetSpec == FleetInit /\ [][FleetNext]_vars

(* ------------------------------------------------------------------ *)
(* Properties of sync_admin (checked under Spec)                        *)
(* ------------------------------------------------------------------ *)

Finished == pc = "idle" /\ report # NoValue

\* the run in progress, or just finished, repeats the body of a run that
\* reported unsuccessful = 0, with no change to the users in between
SecondRun == prev # NoValue /\ prev.clean /\ prev.configs = configs

Reconciled(k) ==
    /\ computed[k] # NoValue
    /\ db[k].inbounds = computed[k].inbounds
    /\ db[k].proxies = computed[k].proxies

SameAsBefore(k) ==
    /\ db[k].inbounds = before[k].inbounds
    /\ db[k].proxies = before[k].proxies

\* C1: a sync that repeats the policy of a sync that just ran with no failure
\* calls crud.update_user for no user and counts nobody as unsuccessful.
C1_SecondSyncWritesNothing ==
    SecondRun => (attempts = {} /\ unsuccessful = 0)

\* C2: when exactly one user's store update raises and nothing else does, the
\* sync returns total = N, unsuccessful = 1, success = N - 1, and every other
\* user has been processed and holds its reconciled inbounds and proxies.
C2_Isolation ==
    \A k \in Users :
        (/\ Finished
         /\ failed[k] = "store"
         /\ \A j \in Users \ {k} : failed[j] = "none")
        => /\ report = [total |-> Len(db), success |-> Len(db) - 1, unsuccessful |-> 1]
           /\ \A j \in Users \ {k} : Reconciled(j)

\* a batch of two whose first user failed in the store and whose second user
\* was written after it
C2_Witness ==
    /\ Finished
    /\ Len(db) = 2
    /\ failed[1] = "store"
    /\ failed[2] = "none"
    /\ 2 \in persisted

\* C6: every user's proxies hold a settings payload for exactly the protocols
\* of its inbounds, and so does every reconciliation the sync computes, also
\* when the policy maps a protocol to an empty tag list.
C6_SettingsComplete ==
    \A k \in Users :
        /\ DOMAIN db[k].proxies = DOMAIN db[k].inbounds
        /\ (computed[k] # NoValue /\ computed[k].proxies # NoValue)
           => DOMAIN computed[k].proxies = DOMAIN computed[k].inbounds

\* a user written under a policy whose protocol has no tag: it holds the
\* protocol with an empty list and the protocol's default settings
C6_Witness ==
    /\ Finished
    /\ \E k \in persisted : \E p \in DOMAIN configs :
         /\ configs[p] = <<>>
         /\ p \notin DOMAIN before[k].inbounds
         /\ db[k].inbounds[p] = <<>>
         /\ db[k].proxies[p] = DefaultSettings(p)

\* C7: the new inbounds computed for a user have exactly the protocols of the
\* policy, each with exactly the policy's set of tags, whatever the user held.
C7_PolicyGrant ==
    \A k \in Users :
        computed[k] # NoValue
        => LET allowed == AllowedInbounds(configs)
               ni == computed[k].inbounds
           IN  /\ DOMAIN ni = DOMAIN allowed
               /\ \A p \in DOMAIN ni : Range(ni[p]) = Range(allowed[p])

\* a user that held a protocol the policy lacks and a tag the policy lacks,
\* written by the sync
C7_Witness ==
    \E k \in persisted :
        /\ computed[k] # NoValue
        /\ DOMAIN before[k].inbounds \ DOMAIN configs # {}
        /\ DOMAIN before[k].inbounds \cap DOMAIN configs # {}
        /\ DOMAIN db[k].inbounds = DOMAIN configs

\* C8: xray.operations.update_user is called for a user only after this
\* sync's store update of that user succeeded, and only when the user's status
\* is active or on_hold.
C8_PushGating ==
    \A k \in pushes :
        /\ k \in persisted
        /\ db[k].status \in {"active", "on_hold"}

\* a disabled user whose inbounds were changed without a push, next to a user
\* that was pushed
C8_Witness ==
    /\ Finished
    /\ \E k \in persisted :
         /\ db[k].status = "disabled"
         /\ db[k].inbounds # before[k].inbounds
         /\ k \notin pushes
    /\ pushes # {}

\* C10: after a sync, every user counted as unsuccessful holds the inbounds and
\* proxies it held before the sync, whichever step raised, and every other
\* user holds its reconciled inbounds and proxies.
C10_RollbackOnFailure ==
    Finished
    => \A k \in Users :
         /\ failed[k] # "none" => SameAsBefore(k)
         /\ failed[k] = "none" => Reconciled(k)

(* ------------------------------------------------------------------ *)
(* Properties of the bulk requests (checked under FleetSpec)            *)
(* ------------------------------------------------------------------ *)

NoBulkInProgress == \A r \in Requests : rpc[r] \in {"idle", "ok", "error"}

AllRestartsSucceeded == coreErr = {} /\ \A r \in Requests : nodeErr[r] = {}

\* C3: when no bulk request is in progress and every restart issued has
\* succeeded, every node that stayed connected runs the configuration the
\* local core runs.
C3_FleetSnapshot ==
    (NoBulkInProgress /\ AllRestartsSucceeded)
    => \A n \in Nodes : steady[n] => nodes[n].cfg = coreCfg

C9_CoreFailureFatal ==
    \A r \in coreErr :
        /\ rpc[r] = "error"
        /\ issued[r] = {}
        /\ rtodo[r] = <<>>

\* a failed request with a connected node it never restarted
C9_Witness ==
    \E r \in coreErr : \E n \in Nodes :
        /\ rpc[r] = "error"
        /\ steady[n]
        /\ nodes[n].cfg # rcfg[r]

====
